---- MODULE Spec2Model ----
(***************************************************************************)
(* libpurecoollink/dyson_pure_state_v2.py: the two state classes            *)
(* DysonPureCoolV2State and DysonEnvironmentalSensorV2State, their message  *)
(* classifiers, field extractors, constructors, properties and __repr__.    *)
(*                                                                          *)
(* A Python value is a record tagged by "kind"; a Python string is the      *)
(* tuple of its characters, so that int() and float() parse it.  A float    *)
(* is the exact decimal fraction num/den (den a power of ten); den = 0      *)
(* stands for nan.  An outcome is a returned value or a raised exception.   *)
(***************************************************************************)
EXTENDS Integers, Sequences, FiniteSets, TLC

VARIABLES payload, call, heap, born

vars == <<payload, call, heap, born>>

----------------------------------------------------------------------------
(* Python values *)

PyStr(cs)      == [kind |-> "str", text |-> cs]
PyIntV(n)      == [kind |-> "int", n |-> n]
PyBool(b)      == [kind |-> "bool", b |-> b]
PyNone         == [kind |-> "none"]
PyList(xs)     == [kind |-> "list", items |-> xs]
PyDict(f)      == [kind |-> "dict", map |-> f]

RECURSIVE Reduce(_, _)
Reduce(num, den) ==
    IF den >= 10 /\ num % 10 = 0 /\ den % 10 = 0
    THEN Reduce(num \div 10, den \div 10)
    ELSE <<num, den>>

PyFloatV(num, den) ==
    [kind |-> "float", num |-> Reduce(num, den)[1], den |-> Reduce(num, den)[2]]

PyNaN == [kind |-> "float", num |-> 0, den |-> 0]

Ok(v)    == [exc |-> "none", val |-> v]
Raise(e) == [exc |-> e, val |-> PyNone]

IsNumber(v) == v.kind \in {"int", "float", "bool"}

\* the value of a number as a fraction <<num, den>>
NumOf(v) ==
    CASE v.kind = "int"   -> <<v.n, 1>>
      [] v.kind = "bool"  -> <<IF v.b THEN 1 ELSE 0, 1>>
      [] v.kind = "float" -> <<v.num, v.den>>

\* a == b
PyEq(a, b) ==
    IF IsNumber(a) /\ IsNumber(b)
    THEN /\ NumOf(a)[2] # 0
         /\ NumOf(b)[2] # 0
         /\ NumOf(a)[1] * NumOf(b)[2] = NumOf(b)[1] * NumOf(a)[2]
    ELSE a.kind = b.kind /\ a = b

\* x in [l1, ..., ln]
PyIn(x, lst) == \E i \in DOMAIN lst : PyEq(x, lst[i])

\* x[key] for a string key
PyGetItem(x, key) ==
    IF x.kind = "dict"
    THEN IF key \in DOMAIN x.map THEN Ok(x.map[key]) ELSE Raise("KeyError")
    ELSE Raise("TypeError")

\* x[1] for a list x
PyIndex1(x) ==
    IF Len(x.items) >= 2 THEN Ok(x.items[2]) ELSE Raise("IndexError")

----------------------------------------------------------------------------
(* int() and float() *)

Digits == {"0", "1", "2", "3", "4", "5", "6", "7", "8", "9"}

DigitVal(c) ==
    CASE c = "0" -> 0 [] c = "1" -> 1 [] c = "2" -> 2 [] c = "3" -> 3
      [] c = "4" -> 4 [] c = "5" -> 5 [] c = "6" -> 6 [] c = "7" -> 7
      [] c = "8" -> 8 [] c = "9" -> 9

AllDigits(cs) == \A i \in DOMAIN cs : cs[i] \in Digits

RECURSIVE DigitsValue(_)
DigitsValue(cs) ==
    IF cs = <<>> THEN 0
    ELSE 10 * DigitsValue(SubSeq(cs, 1, Len(cs) - 1)) + DigitVal(cs[Len(cs)])

RECURSIVE Pow10(_)
Pow10(k) == IF k = 0 THEN 1 ELSE 10 * Pow10(k - 1)

RECURSIVE LStrip(_)
LStrip(cs) == IF cs # <<>> /\ cs[1] = " " THEN LStrip(Tail(cs)) ELSE cs

RECURSIVE RStrip(_)
RStrip(cs) ==
    IF cs # <<>> /\ cs[Len(cs)] = " "
    THEN RStrip(SubSeq(cs, 1, Len(cs) - 1))
    ELSE cs

Strip(cs) == RStrip(LStrip(cs))

HasSign(cs) == cs # <<>> /\ cs[1] \in {"+", "-"}
SignOf(cs)  == IF cs # <<>> /\ cs[1] = "-" THEN -1 ELSE 1
Unsigned(cs) == IF HasSign(cs) THEN Tail(cs) ELSE cs

\* int(s) for a string s: optional blanks, optional sign, decimal digits
IntOfStr(cs) ==
    LET body == Unsigned(Strip(cs))
    IN  IF body # <<>> /\ AllDigits(body)
        THEN Ok(PyIntV(SignOf(Strip(cs)) * DigitsValue(body)))
        ELSE Raise("ValueError")

\* int(x)
PyInt(x) ==
    CASE x.kind = "str"   -> IntOfStr(x.text)
      [] x.kind = "int"   -> Ok(x)
      [] x.kind = "bool"  -> Ok(PyIntV(IF x.b THEN 1 ELSE 0))
      [] x.kind = "float" ->
            IF x.den = 0 THEN Raise("ValueError")
            ELSE IF x.num >= 0 THEN Ok(PyIntV(x.num \div x.den))
            ELSE Ok(PyIntV(-((-x.num) \div x.den)))
      [] OTHER            -> Raise("TypeError")

DotAt(cs) == {i \in DOMAIN cs : cs[i] = "."}

\* float(s) for a string s: optional blanks, optional sign, then "nan" or
\* digits with at most one "." and at least one digit
FloatOfStr(cs) ==
    LET body == Unsigned(Strip(cs))
        sign == SignOf(Strip(cs))
        dots == DotAt(body)
    IN  IF body = <<"n", "a", "n">> THEN Ok(PyNaN)
        ELSE IF dots = {}
        THEN IF body # <<>> /\ AllDigits(body)
             THEN Ok(PyFloatV(sign * DigitsValue(body), 1))
             ELSE Raise("ValueError")
        ELSE IF Cardinality(dots) = 1
        THEN LET d    == CHOOSE i \in dots : TRUE
                 ip   == SubSeq(body, 1, d - 1)
                 fp   == SubSeq(body, d + 1, Len(body))
             IN  IF AllDigits(ip) /\ AllDigits(fp) /\ Len(ip) + Len(fp) > 0
                 THEN Ok(PyFloatV(sign * (DigitsValue(ip) * Pow10(Len(fp))
                                          + DigitsValue(fp)),
                                  Pow10(Len(fp))))
                 ELSE Raise("ValueError")
        ELSE Raise("ValueError")

\* float(x)
PyFloat(x) ==
    CASE x.kind = "str"   -> FloatOfStr(x.text)
      [] x.kind = "int"   -> Ok(PyFloatV(x.n, 1))
      [] x.kind = "bool"  -> Ok(PyFloatV(IF x.b THEN 1 ELSE 0, 1))
      [] x.kind = "float" -> Ok(x)
      [] OTHER            -> Raise("TypeError")

\* f / 10 for a float f
PyDiv10(f) == IF f.den = 0 THEN PyNaN ELSE PyFloatV(f.num, f.den * 10)

----------------------------------------------------------------------------
(* string literals of the source *)

s_CURRENT_STATE ==
    <<"C", "U", "R", "R", "E", "N", "T", "-", "S", "T", "A", "T", "E">>
s_STATE_CHANGE ==
    <<"S", "T", "A", "T", "E", "-", "C", "H", "A", "N", "G", "E">>
s_ENVIRONMENTAL_CURRENT_SENSOR_DATA ==
    <<"E", "N", "V", "I", "R", "O", "N", "M", "E", "N", "T", "A", "L">>
    \o <<"-", "C", "U", "R", "R", "E", "N", "T">>
    \o <<"-", "S", "E", "N", "S", "O", "R", "-", "D", "A", "T", "A">>
s_OFF  == <<"O", "F", "F">>
s_INIT == <<"I", "N", "I", "T">>

\* json.loads(payload): a payload string is either not well-formed JSON or
\* the text of one document
json_loads(p) == IF p.wf THEN Ok(p.doc) ELSE Raise("JSONDecodeError")

----------------------------------------------------------------------------
(* class DysonPureCoolV2State *)

\* is_state_message with "STATE-CHANGE" left out of the list
is_state_message_current_only(p) ==
    LET json_message == json_loads(p)
    IN  IF json_message.exc # "none" THEN json_message
        ELSE LET msg == PyGetItem(json_message.val, "msg")
             IN  IF msg.exc # "none" THEN msg
                 ELSE Ok(PyBool(PyIn(msg.val, <<PyStr(s_CURRENT_STATE)>>)))

\* is_state_message answering false for a payload that does not decode
is_state_message_lenient(p) ==
    LET json_message == json_loads(p)
    IN  IF json_message.exc # "none" THEN Ok(PyBool(FALSE))
        ELSE LET msg == PyGetItem(json_message.val, "msg")
             IN  IF msg.exc # "none" THEN msg
                 ELSE Ok(PyBool(PyIn(msg.val, <<PyStr(s_CURRENT_STATE),
                                                PyStr(s_STATE_CHANGE)>>)))

is_state_message(p) ==
    LET json_message == json_loads(p)
    IN  IF json_message.exc # "none" THEN json_message
        ELSE LET msg == PyGetItem(json_message.val, "msg")
             IN  IF msg.exc # "none" THEN msg
                 ELSE Ok(PyBool(PyIn(msg.val, <<PyStr(s_CURRENT_STATE),
                                                PyStr(s_STATE_CHANGE)>>)))

\* _get_field_value returning the previous value, state[field][0]
PureCool_get_field_value_previous(state, field) ==
    LET v == PyGetItem(state, field)
    IN  IF v.exc # "none" THEN v
        ELSE IF v.val.kind = "list"
        THEN IF Len(v.val.items) >= 2 THEN Ok(v.val.items[1])
             ELSE Raise("IndexError")
        ELSE v

\* _get_field_value with state.get(field) in place of state[field]
PureCool_get_field_value_default(state, field) ==
    LET v == PyGetItem(state, field)
    IN  IF v.exc = "KeyError" THEN Ok(PyNone)
        ELSE IF v.exc # "none" THEN v
        ELSE IF v.val.kind = "list" THEN PyIndex1(v.val)
        ELSE v

PureCool_get_field_value(state, field) ==
    LET v == PyGetItem(state, field)
    IN  IF v.exc # "none" THEN v
        ELSE IF v.val.kind = "list" THEN PyIndex1(v.val)
        ELSE v

\* the assignments of __init__ with the keys of the two angles exchanged
PureCoolFields_angles_exchanged ==
    << <<"_fan_power", "fpwr">>,
       <<"_front_direction", "fdir">>,
       <<"_auto_mode", "auto">>,
       <<"_oscillation_status", "oscs">>,
       <<"_oscillation", "oson">>,
       <<"_night_mode", "nmod">>,
       <<"_continuous_monitoring", "rhtm">>,
       <<"_fan_state", "fnst">>,
       <<"_night_mode_speed", "nmdv">>,
       <<"_speed", "fnsp">>,
       <<"_carbon_filter_state", "cflr">>,
       <<"_hepa_filter_state", "hflr">>,
       <<"_sleep_timer", "sltm">>,
       <<"_oscillation_angle_low", "osau">>,
       <<"_oscillation_angle_high", "osal">> >>

\* the assignments of __init__, in order: attribute, key
PureCoolFields ==
    << <<"_fan_power", "fpwr">>,
       <<"_front_direction", "fdir">>,
       <<"_auto_mode", "auto">>,
       <<"_oscillation_status", "oscs">>,
       <<"_oscillation", "oson">>,
       <<"_night_mode", "nmod">>,
       <<"_continuous_monitoring", "rhtm">>,
       <<"_fan_state", "fnst">>,
       <<"_night_mode_speed", "nmdv">>,
       <<"_speed", "fnsp">>,
       <<"_carbon_filter_state", "cflr">>,
       <<"_hepa_filter_state", "hflr">>,
       <<"_sleep_timer", "sltm">>,
       <<"_oscillation_angle_low", "osal">>,
       <<"_oscillation_angle_high", "osau">> >>

\* the first n assignments of __init__: the attributes set, or the first
\* exception raised
RECURSIVE PureCoolAssign(_, _)
PureCoolAssign(state, n) ==
    IF n = 0 THEN Ok(<<>>)
    ELSE LET before == PureCoolAssign(state, n - 1)
         IN  IF before.exc # "none" THEN before
             ELSE LET v == PureCool_get_field_value(state, PureCoolFields[n][2])
                  IN  IF v.exc # "none" THEN v
                      ELSE Ok(before.val @@ (PureCoolFields[n][1] :> v.val))

PureCoolInit(p) ==
    LET json_message == json_loads(p)
    IN  IF json_message.exc # "none" THEN json_message
        ELSE LET state == PyGetItem(json_message.val, "product-state")
             IN  IF state.exc # "none" THEN state
                 ELSE LET attrs == PureCoolAssign(state.val, Len(PureCoolFields))
                      IN  IF attrs.exc # "none" THEN attrs
                          ELSE Ok([kind  |-> "object",
                                   cls   |-> "DysonPureCoolV2State",
                                   attrs |-> attrs.val @@ ("_state" :> state.val)])

\* the properties: name, attribute returned
PureCoolProperties ==
    << <<"fan_power", "_fan_power">>,
       <<"front_direction", "_front_direction">>,
       <<"auto_mode", "_auto_mode">>,
       <<"oscillation_status", "_oscillation_status">>,
       <<"oscillation", "_oscillation">>,
       <<"night_mode", "_night_mode">>,
       <<"continuous_monitoring", "_continuous_monitoring">>,
       <<"fan_state", "_fan_state">>,
       <<"night_mode_speed", "_night_mode_speed">>,
       <<"speed", "_speed">>,
       <<"carbon_filter_state", "_carbon_filter_state">>,
       <<"hepa_filter_state", "_hepa_filter_state">>,
       <<"sleep_timer", "_sleep_timer">>,
       <<"oscillation_angle_low", "_oscillation_angle_low">>,
       <<"oscillation_angle_high", "_oscillation_angle_high">> >>

----------------------------------------------------------------------------
(* class DysonEnvironmentalSensorV2State *)

\* is_environmental_state_message accepting the state tags as well
is_environmental_state_message_any(p) ==
    LET json_message == json_loads(p)
    IN  IF json_message.exc # "none" THEN json_message
        ELSE LET msg == PyGetItem(json_message.val, "msg")
             IN  IF msg.exc # "none" THEN msg
                 ELSE Ok(PyBool(PyIn(msg.val,
                            <<PyStr(s_ENVIRONMENTAL_CURRENT_SENSOR_DATA),
                              PyStr(s_CURRENT_STATE)>>)))

\* is_environmental_state_message with json_message.get('msg')
is_environmental_state_message_get(p) ==
    LET json_message == json_loads(p)
    IN  IF json_message.exc # "none" THEN json_message
        ELSE LET msg == PyGetItem(json_message.val, "msg")
             IN  IF msg.exc # "none" THEN Ok(PyBool(FALSE))
                 ELSE Ok(PyBool(PyIn(msg.val,
                            <<PyStr(s_ENVIRONMENTAL_CURRENT_SENSOR_DATA)>>)))

is_environmental_state_message(p) ==
    LET json_message == json_loads(p)
    IN  IF json_message.exc # "none" THEN json_message
        ELSE LET msg == PyGetItem(json_message.val, "msg")
             IN  IF msg.exc # "none" THEN msg
                 ELSE Ok(PyBool(PyIn(msg.val,
                            <<PyStr(s_ENVIRONMENTAL_CURRENT_SENSOR_DATA)>>)))

EnvSensor_get_field_value(state, field) ==
    LET v == PyGetItem(state, field)
    IN  IF v.exc # "none" THEN v
        ELSE IF v.val.kind = "list" THEN PyIndex1(v.val)
        ELSE v

\* 0 if x == sentinel else float(x) / 10
ZeroOrTenth(x, sentinel) ==
    IF PyEq(x, PyStr(sentinel)) THEN Ok(PyIntV(0))
    ELSE LET f == PyFloat(x)
         IN  IF f.exc # "none" THEN f ELSE Ok(PyDiv10(f.val))

\* 0 if x == sentinel else int(x)
ZeroOrInt(x, sentinel) ==
    IF PyEq(x, PyStr(sentinel)) THEN Ok(PyIntV(0)) ELSE PyInt(x)

\* the assignments of __init__ with 'OFF' as the sentinel of va10
EnvSensorFields_va10_OFF ==
    << <<"_temperature", "tact", "tenth_or_OFF">>,
       <<"_humidity", "hact", "int_or_OFF">>,
       <<"_particulate_matter_25", "pm25", "int">>,
       <<"_particulate_matter_10", "pm10", "int">>,
       <<"_volatile_organic_compounds", "va10", "int_or_OFF">>,
       <<"_nitrogen_dioxide", "noxl", "int">>,
       <<"_p25r", "p25r", "int">>,
       <<"_p10r", "p10r", "int">>,
       <<"_sleep_timer", "sltm", "int_or_OFF">> >>

\* the assignments of __init__, in order: attribute, key, normalization
EnvSensorFields ==
    << <<"_temperature", "tact", "tenth_or_OFF">>,
       <<"_humidity", "hact", "int_or_OFF">>,
       <<"_particulate_matter_25", "pm25", "int">>,
       <<"_particulate_matter_10", "pm10", "int">>,
       <<"_volatile_organic_compounds", "va10", "int_or_INIT">>,
       <<"_nitrogen_dioxide", "noxl", "int">>,
       <<"_p25r", "p25r", "int">>,
       <<"_p10r", "p10r", "int">>,
       <<"_sleep_timer", "sltm", "int_or_OFF">> >>

EnvSensorNormalize(how, x) ==
    CASE how = "tenth_or_OFF" -> ZeroOrTenth(x, s_OFF)
      [] how = "int_or_OFF"   -> ZeroOrInt(x, s_OFF)
      [] how = "int_or_INIT"  -> ZeroOrInt(x, s_INIT)
      [] how = "int"          -> PyInt(x)

RECURSIVE EnvSensorAssign(_, _)
EnvSensorAssign(data, n) ==
    IF n = 0 THEN Ok(<<>>)
    ELSE LET before == EnvSensorAssign(data, n - 1)
         IN  IF before.exc # "none" THEN before
             ELSE LET x == EnvSensor_get_field_value(data, EnvSensorFields[n][2])
                  IN  IF x.exc # "none" THEN x
                      ELSE LET v == EnvSensorNormalize(EnvSensorFields[n][3], x.val)
                           IN  IF v.exc # "none" THEN v
                               ELSE Ok(before.val @@ (EnvSensorFields[n][1] :> v.val))

EnvSensorInit(p) ==
    LET json_message == json_loads(p)
    IN  IF json_message.exc # "none" THEN json_message
        ELSE LET data == PyGetItem(json_message.val, "data")
             IN  IF data.exc # "none" THEN data
                 ELSE LET attrs == EnvSensorAssign(data.val, Len(EnvSensorFields))
                      IN  IF attrs.exc # "none" THEN attrs
                          ELSE Ok([kind  |-> "object",
                                   cls   |-> "DysonEnvironmentalSensorV2State",
                                   attrs |-> attrs.val])

EnvSensorProperties ==
    << <<"temperature", "_temperature">>,
       <<"humidity", "_humidity">>,
       <<"particulate_matter_25", "_particulate_matter_25">>,
       <<"particulate_matter_10", "_particulate_matter_10">>,
       <<"volatile_organic_compounds", "_volatile_organic_compounds">>,
       <<"nitrogen_dioxide", "_nitrogen_dioxide">>,
       <<"p25r", "_p25r">>,
       <<"p10r", "_p10r">>,
       <<"sleep_timer", "_sleep_timer">> >>

----------------------------------------------------------------------------
(* property reads and __repr__ *)

AttrOf(props, name) ==
    LET i == CHOOSE j \in DOMAIN props : props[j][1] = name IN props[i][2]

PropertiesOf(obj) ==
    IF obj.cls = "DysonPureCoolV2State" THEN PureCoolProperties
    ELSE EnvSensorProperties

PropertyNames(obj) ==
    {PropertiesOf(obj)[i][1] : i \in DOMAIN PropertiesOf(obj)}

\* obj.<name>
PropertyGet(obj, name) == obj.attrs[AttrOf(PropertiesOf(obj), name)]

DigitChars == <<"0", "1", "2", "3", "4", "5", "6", "7", "8", "9">>

RECURSIVE NatStr(_)
NatStr(n) ==
    IF n < 10 THEN <<DigitChars[n + 1]>>
    ELSE NatStr(n \div 10) \o <<DigitChars[(n % 10) + 1]>>

IntStr(n) == IF n < 0 THEN <<"-">> \o NatStr(-n) ELSE NatStr(n)

RECURSIVE FracStr(_, _)
FracStr(r, den) ==
    IF den = 1 THEN <<>>
    ELSE <<DigitChars[(r \div (den \div 10)) + 1]>>
         \o FracStr(r % (den \div 10), den \div 10)

Abs(n) == IF n < 0 THEN -n ELSE n

FloatStr(num, den) ==
    IF den = 0 THEN <<"n", "a", "n">>
    ELSE (IF num < 0 THEN <<"-">> ELSE <<>>)
         \o NatStr(Abs(num) \div den) \o <<".">>
         \o (IF den = 1 THEN <<"0">> ELSE FracStr(Abs(num) % den, den))

\* str(x) of a number
PyStrOf(x) ==
    CASE x.kind = "int"   -> PyStr(IntStr(x.n))
      [] x.kind = "float" -> PyStr(FloatStr(x.num, x.den))
      [] OTHER            -> x

\* utils.printable_fields: the fields whose value is not null
printable_fields(fields) ==
    SelectSeq(fields, LAMBDA f : f[2] # PyNone)

\* the list "fields" of __repr__
ReprFields(obj) ==
    IF obj.cls = "DysonPureCoolV2State"
    THEN [i \in DOMAIN PureCoolProperties |->
            <<PureCoolProperties[i][1],
              PropertyGet(obj, PureCoolProperties[i][1])>>]
    ELSE [i \in DOMAIN EnvSensorProperties |->
            <<EnvSensorProperties[i][1],
              PyStrOf(PropertyGet(obj, EnvSensorProperties[i][1]))>>]

Repr(obj) ==
    [kind |-> "repr", cls |-> obj.cls, fields |-> printable_fields(ReprFields(obj))]

----------------------------------------------------------------------------
(* the payloads *)

\* strings that occur in the payloads
t_ON == PyStr(<<"O", "N">>)
t_OFF == PyStr(<<"O", "F", "F">>)
t_INIT == PyStr(<<"I", "N", "I", "T">>)
t_45 == PyStr(<<"4", "5">>)
t_2960 == PyStr(<<"2", "9", "6", "0">>)
t_29_5 == PyStr(<<"2", "9", ".", "5">>)
t_pad7 == PyStr(<<" ", "7", " ">>)
t_neg3 == PyStr(<<"-", "3">>)
t_abc == PyStr(<<"a", "b", "c">>)
t_nan == PyStr(<<"n", "a", "n">>)
t_0003 == PyStr(<<"0", "0", "0", "3">>)
t_A == PyStr(<<"A">>)
t_B == PyStr(<<"B">>)
t_C == PyStr(<<"C">>)
t_HELLO == PyStr(<<"H", "E", "L", "L", "O">>)
t_lower == PyStr(<<"c", "u", "r", "r", "e", "n", "t", "-", "s", "t", "a", "t", "e">>)
t_padded == PyStr(<<"C", "U", "R", "R", "E", "N", "T", "-", "S", "T", "A", "T", "E", " ">>)
t_msg == PyStr(<<"m", "s", "g">>)
t_2977 == PyStr(<<"2", "9", "7", "7">>)
t_empty == PyStr(<<>>)
t_CURRENT_STATE == PyStr(s_CURRENT_STATE)
t_STATE_CHANGE == PyStr(s_STATE_CHANGE)
t_ENVIRONMENTAL == PyStr(s_ENVIRONMENTAL_CURRENT_SENSOR_DATA)
T(cs) == PyStr(cs)

Code(i) == <<"0", "0", DigitChars[(i \div 10) + 1], DigitChars[(i % 10) + 1]>>

ProductStateKeys ==
    <<"fpwr", "fdir", "auto", "oscs", "oson", "nmod", "rhtm", "fnst",
      "nmdv", "fnsp", "cflr", "hflr", "sltm", "osal", "osau">>

DataKeys ==
    <<"tact", "hact", "pm25", "pm10", "va10", "noxl", "p25r", "p10r", "sltm">>

Range(f) == {f[i] : i \in DOMAIN f}

IndexIn(keys, k) == CHOOSE i \in DOMAIN keys : keys[i] = k

\* a legitimate product-state: scalar fields and [previous, current] fields
BaseState ==
    [k \in Range(ProductStateKeys) |->
        LET i == IndexIn(ProductStateKeys, k)
        IN  IF i % 2 = 1 THEN T(Code(i))
            ELSE PyList(<<T(Code(0)), T(Code(i))>>)]

\* a legitimate data mapping
BaseData ==
    [k \in Range(DataKeys) |->
        LET i == IndexIn(DataKeys, k)
        IN  IF i = 1 THEN t_2977
            ELSE IF i % 2 = 1 THEN T(Code(i + 20))
            ELSE PyList(<<T(Code(0)), T(Code(i + 20))>>)]

Without(f, k) == [x \in (DOMAIN f) \ {k} |-> f[x]]
With(f, k, v) == [x \in (DOMAIN f) \cup {k} |-> IF x = k THEN v ELSE f[x]]

StateValues ==
    { t_ON, PyIntV(7), PyBool(TRUE), PyNone, PyDict(<<>>),
      PyList(<<>>), PyList(<<t_ON>>),
      PyList(<<t_OFF, t_ON>>),
      PyList(<<t_A, t_B, t_C>>) }

DataValues ==
    { t_OFF, t_INIT, t_45, t_2960, t_29_5, t_pad7,
      t_neg3, t_abc, t_empty, t_nan,
      PyIntV(45), PyFloatV(455, 10), PyBool(TRUE), PyNone, PyDict(<<>>),
      PyList(<<t_OFF, t_0003>>), PyList(<<t_0003, t_OFF>>),
      PyList(<<t_0003, t_INIT>>), PyList(<<t_INIT>>) }

\* the keys at which a second fault is planted
FaultAt(keys) == {keys[1], keys[(Len(keys) + 1) \div 2], keys[Len(keys)]}

ProductStates ==
    {BaseState}
    \cup {With(BaseState, k, v) : k \in Range(ProductStateKeys), v \in StateValues}
    \cup {Without(BaseState, k) : k \in Range(ProductStateKeys)}
    \cup UNION {{Without(With(BaseState, b, PyList(<<t_ON>>)), k) :
                    k \in Range(ProductStateKeys) \ {b}} :
                 b \in FaultAt(ProductStateKeys)}

DataMappings ==
    {BaseData}
    \cup {With(BaseData, k, v) : k \in Range(DataKeys), v \in DataValues}
    \cup {Without(BaseData, k) : k \in Range(DataKeys)}
    \cup UNION {{Without(With(BaseData, b, v), k) :
                    k \in Range(DataKeys) \ {b}, v \in {t_abc, t_INIT, PyNone}} :
                 b \in FaultAt(DataKeys)}

MsgTags ==
    { t_CURRENT_STATE, t_STATE_CHANGE,
      t_ENVIRONMENTAL,
      t_HELLO, t_lower, t_padded, t_empty,
      PyIntV(1), PyNone, PyBool(TRUE), PyList(<<t_CURRENT_STATE>>),
      PyList(<<t_CURRENT_STATE, t_STATE_CHANGE>>) }

Well(doc) == [wf |-> TRUE, doc |-> doc]
Malformed == [wf |-> FALSE, doc |-> PyNone]

\* documents that are mappings: every tag (or none) with every kind of body
Bodies ==
    { <<>>,
      [k \in {"product-state"} |-> PyDict(BaseState)],
      [k \in {"data"} |-> PyDict(BaseData)],
      [k \in {"product-state", "data"} |->
          IF k = "data" THEN PyDict(BaseData) ELSE PyDict(BaseState)],
      [k \in {"product-state", "data"} |-> t_ON],
      [k \in {"product-state", "data"} |-> PyList(<<t_ON, t_ON>>)],
      [k \in {"product-state", "data"} |-> PyNone] }

TaggedDocs ==
    {PyDict(With(b, "msg", m)) : b \in Bodies, m \in MsgTags}
    \cup {PyDict(b) : b \in Bodies}

StateDocs ==
    {PyDict(With([k \in {"product-state"} |-> PyDict(st)], "msg",
                 t_CURRENT_STATE)) :
        st \in ProductStates}

DataDocs ==
    {PyDict(With([k \in {"data"} |-> PyDict(d)], "msg",
                 t_ENVIRONMENTAL)) : d \in DataMappings}

\* well-formed documents that are not mappings
OtherDocs ==
    { PyList(<<>>), PyList(<<t_CURRENT_STATE>>), t_CURRENT_STATE,
      t_msg, PyIntV(42), PyFloatV(15, 10), PyBool(TRUE), PyNone }

Payloads ==
    {Malformed}
    \cup {Well(d) : d \in TaggedDocs \cup StateDocs \cup DataDocs \cup OtherDocs}

\* the payloads of the runs that keep objects
LifePayloads ==
    { Malformed,
      Well(PyDict(With([k \in {"product-state"} |-> PyDict(BaseState)],
                       "msg", t_CURRENT_STATE))),
      Well(PyDict(With([k \in {"product-state"} |->
                           PyDict(With(BaseState, "fpwr", PyNone))],
                       "msg", t_STATE_CHANGE))),
      Well(PyDict(With([k \in {"product-state"} |->
                           PyDict(Without(BaseState, "osau"))],
                       "msg", t_STATE_CHANGE))),
      Well(PyDict(With([k \in {"data"} |-> PyDict(BaseData)],
                       "msg", t_ENVIRONMENTAL))),
      Well(PyDict(With([k \in {"data"} |->
                           PyDict(With(BaseData, "tact", t_OFF))],
                       "msg", t_ENVIRONMENTAL))) }

\* the number of state objects a caller keeps
MaxObjects == 2

----------------------------------------------------------------------------
(* the operations *)

NoCall == [op |-> "none", arg |-> "", idx |-> 0, out |-> Ok(PyNone)]

Called(op, arg, idx, out) == [op |-> op, arg |-> arg, idx |-> idx, out |-> out]

Init ==
    /\ payload \in Payloads
    /\ call = NoCall
    /\ heap = <<>>
    /\ born = <<>>

InitLife ==
    /\ payload \in LifePayloads
    /\ call = NoCall
    /\ heap = <<>>
    /\ born = <<>>

\* the next payload arrives
Receive ==
    /\ \E p \in LifePayloads : payload' = p
    /\ call' = NoCall
    /\ UNCHANGED <<heap, born>>

IsStateMessage ==
    /\ call' = Called("is_state_message", "", 0, is_state_message(payload))
    /\ UNCHANGED <<payload, heap, born>>

IsEnvironmentalStateMessage ==
    /\ call' = Called("is_environmental_state_message", "", 0,
                      is_environmental_state_message(payload))
    /\ UNCHANGED <<payload, heap, born>>

NewPureCool ==
    /\ call' = Called("DysonPureCoolV2State", "", 0, PureCoolInit(payload))
    /\ UNCHANGED <<payload, heap, born>>

NewEnvSensor ==
    /\ call' = Called("DysonEnvironmentalSensorV2State", "", 0,
                      EnvSensorInit(payload))
    /\ UNCHANGED <<payload, heap, born>>

\* the nested value of the payload at key, when there is one
HasNested(key) ==
    /\ payload.wf
    /\ payload.doc.kind = "dict"
    /\ key \in DOMAIN payload.doc.map

Nested(key) == payload.doc.map[key]

FieldNames == Range(ProductStateKeys) \cup Range(DataKeys)

\* DysonPureCoolV2State._get_field_value(payload's product-state, field)
GetPureCoolField(field) ==
    /\ HasNested("product-state")
    /\ call' = Called("PureCool_get_field_value", field, 0,
                      PureCool_get_field_value(Nested("product-state"), field))
    /\ UNCHANGED <<payload, heap, born>>

\* DysonEnvironmentalSensorV2State.__get_field_value(payload's data, field)
GetEnvSensorField(field) ==
    /\ HasNested("data")
    /\ call' = Called("EnvSensor_get_field_value", field, 0,
                      EnvSensor_get_field_value(Nested("data"), field))
    /\ UNCHANGED <<payload, heap, born>>

Constructors == {"DysonPureCoolV2State", "DysonEnvironmentalSensorV2State"}

\* the caller keeps the object a constructor returned
Keep ==
    /\ call.op \in Constructors
    /\ call.out.exc = "none"
    /\ Len(heap) < MaxObjects
    /\ heap' = Append(heap, call.out.val)
    /\ born' = Append(born, call.out.val.attrs)
    /\ call' = NoCall
    /\ UNCHANGED payload

ReadProperty(i, name) ==
    /\ call' = Called("property", name, i, Ok(PropertyGet(heap[i], name)))
    /\ UNCHANGED <<payload, heap, born>>

\* __repr__ storing the strings it formats back into the object
ReprCall_storing(i) ==
    /\ call' = Called("__repr__", "", i, Ok(Repr(heap[i])))
    /\ heap' = [heap EXCEPT ![i].attrs =
                  [a \in DOMAIN heap[i].attrs |-> PyStrOf(heap[i].attrs[a])]]
    /\ UNCHANGED <<payload, born>>

ReprCall(i) ==
    /\ call' = Called("__repr__", "", i, Ok(Repr(heap[i])))
    /\ UNCHANGED <<payload, heap, born>>

GetField == \E f \in FieldNames : GetPureCoolField(f) \/ GetEnvSensorField(f)

Read == \E i \in DOMAIN heap : \E name \in PropertyNames(heap[i]) : ReadProperty(i, name)

Describe == \E i \in DOMAIN heap : ReprCall(i)

Next ==
    \/ IsStateMessage
    \/ IsEnvironmentalStateMessage
    \/ NewPureCool
    \/ NewEnvSensor
    \/ GetField

NextLife ==
    \/ Receive
    \/ IsStateMessage
    \/ IsEnvironmentalStateMessage
    \/ NewPureCool
    \/ NewEnvSensor
    \/ Keep
    \/ Read
    \/ Describe

Spec == Init /\ [][Next]_vars

SpecLife == InitLife /\ [][NextLife]_vars

----------------------------------------------------------------------------
(* what the claims speak of *)

IsMapping == payload.wf /\ payload.doc.kind = "dict"

HasTag == IsMapping /\ "msg" \in DOMAIN payload.doc.map

Tag == payload.doc.map["msg"]

True  == Ok(PyBool(TRUE))
False == Ok(PyBool(FALSE))

Classifiers == {"is_state_message", "is_environmental_state_message"}

Extractors == {"PureCool_get_field_value", "EnvSensor_get_field_value"}

\* the nested mapping an operation reads
NestedKey(op) ==
    IF op \in {"PureCool_get_field_value", "DysonPureCoolV2State"}
    THEN "product-state" ELSE "data"

HasNestedMapping(op) ==
    /\ HasNested(NestedKey(op))
    /\ Nested(NestedKey(op)).kind = "dict"

NestedMap(op) == Nested(NestedKey(op)).map

HasAll(m, keys) == \A i \in DOMAIN keys : keys[i] \in DOMAIN m

IsShortList(v) == v.kind = "list" /\ Len(v.items) < 2

\* C1: for a payload that decodes to a mapping with a msg tag,
\* is_state_message returns true iff the tag is "CURRENT-STATE" or
\* "STATE-CHANGE" and false for every other tag, whatever the other keys are.
C1_StateTag ==
    (call.op = "is_state_message" /\ HasTag) =>
        call.out = Ok(PyBool(Tag \in {t_CURRENT_STATE, t_STATE_CHANGE}))

C1_Witness ==
    /\ call.op = "is_state_message"
    /\ HasTag
    /\ Tag = t_STATE_CHANGE
    /\ "data" \in DOMAIN payload.doc.map
    /\ call.out = True

\* C2: for a payload that decodes to a mapping with a msg tag,
\* is_environmental_state_message returns true iff the tag is
\* "ENVIRONMENTAL-CURRENT-SENSOR-DATA", and no payload is accepted by both
\* classifiers.
C2_EnvironmentalTag ==
    /\ (call.op = "is_environmental_state_message" /\ HasTag) =>
            call.out = Ok(PyBool(Tag = t_ENVIRONMENTAL))
    /\ (call.op \in Classifiers /\ call.out = True) =>
            ~ ( /\ is_state_message(payload) = True
                /\ is_environmental_state_message(payload) = True )

C2_Witness ==
    /\ call.op = "is_environmental_state_message"
    /\ HasTag
    /\ Tag = t_ENVIRONMENTAL
    /\ call.out = True
    /\ is_state_message(payload) = False

\* C3 as stated: for a key present in the mapping the extractor returns the
\* element at position 1 of a two-element sequence and every other value
\* unchanged (sequences of another length included); for an absent key it
\* fails with a missing-key error.
C3_AsStated ==
    (call.op \in Extractors /\ HasNestedMapping(call.op)) =>
        LET m == NestedMap(call.op)
        IN  IF call.arg \notin DOMAIN m THEN call.out = Raise("KeyError")
            ELSE IF m[call.arg].kind = "list" /\ Len(m[call.arg].items) = 2
            THEN call.out = Ok(m[call.arg].items[2])
            ELSE call.out = Ok(m[call.arg])

\* C3: for a key present in the mapping the extractor returns the element at
\* position 1 of every sequence that has one (two elements or more), fails
\* with an index error on a sequence of fewer than two elements, and returns
\* every value that is not a sequence unchanged; for an absent key it fails
\* with a missing-key error.
C3_Extractor ==
    (call.op \in Extractors /\ HasNestedMapping(call.op)) =>
        LET m == NestedMap(call.op)
        IN  IF call.arg \notin DOMAIN m THEN call.out = Raise("KeyError")
            ELSE IF m[call.arg].kind # "list" THEN call.out = Ok(m[call.arg])
            ELSE IF Len(m[call.arg].items) >= 2
            THEN call.out = Ok(m[call.arg].items[2])
            ELSE call.out = Raise("IndexError")

C3_Witness ==
    /\ call.op = "PureCool_get_field_value"
    /\ HasNestedMapping(call.op)
    /\ call.arg = "fpwr"
    /\ "fpwr" \in DOMAIN NestedMap(call.op)
    /\ NestedMap(call.op)["fpwr"] = PyList(<<t_A, t_B, t_C>>)
    /\ call.out = Ok(t_B)

\* the properties of DysonPureCoolV2State and the key of each
PropertyKeys ==
    << <<"fan_power", "fpwr">>, <<"front_direction", "fdir">>,
       <<"auto_mode", "auto">>, <<"oscillation_status", "oscs">>,
       <<"oscillation", "oson">>, <<"night_mode", "nmod">>,
       <<"continuous_monitoring", "rhtm">>, <<"fan_state", "fnst">>,
       <<"night_mode_speed", "nmdv">>, <<"speed", "fnsp">>,
       <<"carbon_filter_state", "cflr">>, <<"hepa_filter_state", "hflr">>,
       <<"sleep_timer", "sltm">>, <<"oscillation_angle_low", "osal">>,
       <<"oscillation_angle_high", "osau">> >>

FifteenKeys == [i \in DOMAIN PropertyKeys |-> PropertyKeys[i][2]]

EachPropertyIsItsField ==
    /\ call.out.exc = "none"
    /\ \A i \in DOMAIN PropertyKeys :
          Ok(PropertyGet(call.out.val, PropertyKeys[i][1]))
            = PureCool_get_field_value(Nested("product-state"),
                                       PropertyKeys[i][2])

\* C4 as stated: for every payload whose product-state mapping contains all
\* fifteen keys, construction succeeds and each property returns the field
\* extractor's result for its own key.
C4_AsStated ==
    ( /\ call.op = "DysonPureCoolV2State"
      /\ HasNestedMapping(call.op)
      /\ HasAll(NestedMap(call.op), FifteenKeys) ) => EachPropertyIsItsField

\* C4: for every payload whose product-state mapping contains all fifteen
\* keys, none of them with a sequence of fewer than two elements,
\* construction succeeds and each of the fifteen properties returns exactly
\* the field extractor's result for its own key.
C4_Properties ==
    ( /\ call.op = "DysonPureCoolV2State"
      /\ HasNestedMapping(call.op)
      /\ HasAll(NestedMap(call.op), FifteenKeys)
      /\ \A i \in DOMAIN FifteenKeys :
            ~ IsShortList(NestedMap(call.op)[FifteenKeys[i]]) )
    => EachPropertyIsItsField

C4_Witness ==
    /\ call.op = "DysonPureCoolV2State"
    /\ HasNestedMapping(call.op)
    /\ HasAll(NestedMap(call.op), FifteenKeys)
    /\ NestedMap(call.op)["osal"] = PyIntV(7)
    /\ call.out.exc = "none"
    /\ PropertyGet(call.out.val, "oscillation_angle_low") = PyIntV(7)
    /\ PropertyGet(call.out.val, "oscillation_angle_high") = T(Code(15))

\* the numbers the values of the payloads denote, as fractions
CodeStrings == {T(Code(n)) : n \in 0..99}

NumericInputs ==
    {t_45, t_2960, t_2977, t_0003, t_pad7, t_neg3, t_29_5,
     PyIntV(45), PyFloatV(455, 10)} \cup CodeStrings

NumberOf(v) ==
    CASE v = t_45    -> <<45, 1>>
      [] v = t_2960  -> <<2960, 1>>
      [] v = t_2977  -> <<2977, 1>>
      [] v = t_0003  -> <<3, 1>>
      [] v = t_pad7  -> <<7, 1>>
      [] v = t_neg3  -> <<-3, 1>>
      [] v = t_29_5  -> <<295, 10>>
      [] v = PyIntV(45) -> <<45, 1>>
      [] v = PyFloatV(455, 10) -> <<455, 10>>
      [] v \in CodeStrings -> <<CHOOSE n \in 0..99 : v = T(Code(n)), 1>>

IsNumeric(v) == v \in NumericInputs

\* a numeric string with a fractional part
IsDecimalString(v) == v = t_29_5

\* the number towards zero
IntegerPart(q) ==
    IF q[1] >= 0 THEN q[1] \div q[2] ELSE -((-q[1]) \div q[2])

\* the current value of a field: the second element of a two-element sequence
Current(v) == IF v.kind = "list" /\ Len(v.items) = 2 THEN v.items[2] ELSE v

\* stands for the sentinel of a field that has none
NoSentinel == [kind |-> "no sentinel"]

\* the properties of DysonEnvironmentalSensorV2State: property, key,
\* sentinel, divisor
SensorRows ==
    << <<"temperature", "tact", t_OFF, 10>>,
       <<"humidity", "hact", t_OFF, 1>>,
       <<"particulate_matter_25", "pm25", NoSentinel, 1>>,
       <<"particulate_matter_10", "pm10", NoSentinel, 1>>,
       <<"volatile_organic_compounds", "va10", t_INIT, 1>>,
       <<"nitrogen_dioxide", "noxl", NoSentinel, 1>>,
       <<"p25r", "p25r", NoSentinel, 1>>,
       <<"p10r", "p10r", NoSentinel, 1>>,
       <<"sleep_timer", "sltm", t_OFF, 1>> >>

NineKeys == [i \in DOMAIN SensorRows |-> SensorRows[i][2]]

Sentinels == {t_OFF, t_INIT}

\* the value the claim gives the property of a row for the current value x
Normalized(row, x, got) ==
    IF x = row[3] THEN got = PyIntV(0)
    ELSE IF ~ IsNumeric(x) THEN FALSE
    ELSE IF row[4] = 10
    THEN /\ got.kind = "float"
         /\ got.den # 0
         /\ got.num * NumberOf(x)[2] * 10 = NumberOf(x)[1] * got.den
    ELSE got = PyIntV(IntegerPart(NumberOf(x)))

Required(op) == IF op = "DysonPureCoolV2State" THEN FifteenKeys ELSE NineKeys

Missing(op) ==
    {i \in DOMAIN Required(op) : Required(op)[i] \notin DOMAIN NestedMap(op)}

\* the values int() and float() take
IntConvertible == (NumericInputs \ {t_29_5}) \cup {PyBool(TRUE)}

FloatConvertible == NumericInputs \cup {PyBool(TRUE), t_nan}

\* the field read i-th fails before any key is missed
FailsAt(op, i) ==
    LET v == NestedMap(op)[Required(op)[i]]
        x == IF v.kind = "list" THEN v.items[2] ELSE v
    IN  \/ IsShortList(v)
        \/ /\ op = "DysonEnvironmentalSensorV2State"
           /\ x # SensorRows[i][3]
           /\ x \notin (IF SensorRows[i][4] = 10 THEN FloatConvertible
                        ELSE IntConvertible)

\* C6 as stated: when the decoded payload lacks the nested mapping or the
\* mapping omits a required key, construction fails with a missing-key error.
C6_AsStated ==
    ( /\ call.op \in Constructors
      /\ IsMapping
      /\ \/ ~ HasNested(NestedKey(call.op))
         \/ HasNestedMapping(call.op) /\ Missing(call.op) # {} )
    => call.out = Raise("KeyError")

\* C6: when the decoded payload lacks the nested mapping or the mapping
\* omits a required key, construction fails and returns no object, and no
\* default stands in for the missing field.  The failure is a missing-key
\* error when the nested key is absent from a decoded mapping, and when no
\* field read before the first missing key fails; it is the earlier field's
\* index or type-conversion error otherwise, and a type error when the
\* decoded payload or the nested value is not a mapping.
C6_AllOrNothing ==
    ( /\ call.op \in Constructors
      /\ payload.wf
      /\ \/ ~ HasNestedMapping(call.op)
         \/ Missing(call.op) # {} )
    => /\ call.out.exc # "none"
       /\ call.out.val = PyNone
       /\ IF ~ IsMapping THEN call.out.exc = "TypeError"
          ELSE IF ~ HasNested(NestedKey(call.op)) THEN call.out.exc = "KeyError"
          ELSE IF ~ HasNestedMapping(call.op) THEN call.out.exc = "TypeError"
          ELSE LET first == CHOOSE i \in Missing(call.op) :
                               \A j \in Missing(call.op) : i <= j
               IN  IF \E i \in 1..(first - 1) : FailsAt(call.op, i)
                   THEN call.out.exc \in {"IndexError", "ValueError", "TypeError"}
                   ELSE call.out.exc = "KeyError"

C6_Witness ==
    /\ call.op = "DysonPureCoolV2State"
    /\ HasNestedMapping(call.op)
    /\ Missing(call.op) = {15}
    /\ \A i \in 1..14 : ~ FailsAt(call.op, i)
    /\ call.out = Raise("KeyError")

\* C7: a payload string that does not decode makes the two classifiers and
\* the two constructors fail with a decode error; none returns false or an
\* object.
C7_DecodeError ==
    (call.op \in Classifiers \cup Constructors /\ ~ payload.wf)
        => call.out = Raise("JSONDecodeError")

C7_Witness ==
    /\ call.op = "DysonEnvironmentalSensorV2State"
    /\ ~ payload.wf
    /\ call.out = Raise("JSONDecodeError")

\* C8: in the construction of DysonEnvironmentalSensorV2State an extracted
\* value that is neither numeric nor the sentinel of its own field fails
\* with a type-conversion error and no object is produced.
C8_AsStated ==
    ( /\ call.op = "DysonEnvironmentalSensorV2State"
      /\ HasNestedMapping(call.op)
      /\ HasAll(NestedMap(call.op), NineKeys)
      /\ \A i \in DOMAIN SensorRows :
            ~ IsShortList(NestedMap(call.op)[SensorRows[i][2]])
      /\ \E i \in DOMAIN SensorRows :
            LET x == Current(NestedMap(call.op)[SensorRows[i][2]])
            IN  ~ IsNumeric(x) /\ x # SensorRows[i][3] )
    => call.out.exc \in {"ValueError", "TypeError"}

\* C10 as stated: a classifier returns true, returns false, fails with a
\* decode error (the payload is not well-formed) or fails with a missing-key
\* error (the payload decodes but has no msg tag), and nothing else.
C10_AsStated ==
    call.op \in Classifiers =>
        /\ call.out \in {True, False, Raise("JSONDecodeError"), Raise("KeyError")}
        /\ call.out = Raise("JSONDecodeError") <=> ~ payload.wf
        /\ call.out = Raise("KeyError") <=> (payload.wf /\ ~ HasTag)

\* C10: a classifier has exactly one of five outcomes: it returns true,
\* returns false, fails with a decode error (the payload is not
\* well-formed), fails with a missing-key error (the payload decodes to a
\* mapping without a msg tag), or fails with a type error (the payload
\* decodes to something other than a mapping).
C10_Outcomes ==
    call.op \in Classifiers =>
        /\ call.out \in {True, False, Raise("JSONDecodeError"),
                         Raise("KeyError"), Raise("TypeError")}
        /\ call.out = Raise("JSONDecodeError") <=> ~ payload.wf
        /\ call.out = Raise("KeyError") <=> (IsMapping /\ ~ HasTag)
        /\ call.out = Raise("TypeError") <=> (payload.wf /\ ~ IsMapping)
        /\ call.out \in {True, False} <=> HasTag

C10_Witness ==
    /\ call.op = "is_environmental_state_message"
    /\ payload = Well(PyList(<<t_CURRENT_STATE>>))
    /\ call.out = Raise("TypeError")

\* C9: every property of a kept object keeps the value computed at its
\* construction, whatever is read, described, classified or constructed
\* afterwards, and a property read returns that value.
C9_Immutable ==
    /\ \A i \in DOMAIN heap : heap[i].attrs = born[i]
    /\ call.op = "property" =>
          call.out = Ok(born[call.idx][AttrOf(PropertiesOf(heap[call.idx]),
                                              call.arg)])

C9_Witness ==
    /\ Len(heap) = 2
    /\ heap[1].cls = "DysonEnvironmentalSensorV2State"
    /\ heap[2].cls = "DysonPureCoolV2State"
    /\ call.op = "property"
    /\ call.idx = 1
    /\ call.arg = "temperature"
    /\ call.out = Ok(PyFloatV(2977, 10))

====
